---- MODULE Spec2Model ----
(***************************************************************************)
(* Model of src/script.js: the OMDb search page with its watchlist store,  *)
(* search client, details client and the DOM regions they write.           *)
(*                                                                         *)
(* Text is a sequence of one-character strings, so that trim, escapeHtml   *)
(* and the JSON round trip are computed and not assumed.                   *)
(***************************************************************************)
EXTENDS Naturals, Sequences, FiniteSets

(***************************************************************************)
(* Bounds of the model.                                                    *)
(***************************************************************************)
\* search fetches that may be in flight together
MaxSearchFetches == 2
\* details fetches that may be in flight together
MaxDetailFetches == 2
\* card positions of a grid that may be clicked
MaxCards == 2

(***************************************************************************)
(* Text values.                                                            *)
(***************************************************************************)
\* the JavaScript value undefined (a property the object does not have)
Undefined == <<"undefined">>

NA == <<"N", "/", "A">>

PLACEHOLDER == <<"https://via.placeholder.com/300x450?text=No+Image">>

ID1 == <<"t", "t", "1">>
ID2 == <<"t", "t", "2">>
Ids == {ID1, ID2}

\* ${v} inside a template literal
Interpolate(v) == IF v = Undefined THEN <<"u", "n", "d", "e", "f", "i", "n", "e", "d">> ELSE v

RECURSIVE ReplaceAll(_, _, _)
ReplaceAll(s, c, r) ==
    IF s = <<>> THEN <<>>
    ELSE (IF Head(s) = c THEN r ELSE <<Head(s)>>) \o ReplaceAll(Tail(s), c, r)

escapeHtml(text) ==
    IF text = Undefined \/ text = <<>> THEN <<>>
    ELSE ReplaceAll(ReplaceAll(ReplaceAll(ReplaceAll(ReplaceAll(text,
            "&", <<"&", "a", "m", "p", ";">>),
            "<", <<"&", "l", "t", ";">>),
            ">", <<"&", "g", "t", ";">>),
            "\"", <<"&", "q", "u", "o", "t", ";">>),
            "'", <<"&", "#", "0", "3", "9", ";">>)

RECURSIVE TrimStart(_)
TrimStart(s) == IF s # <<>> /\ Head(s) = " " THEN TrimStart(Tail(s)) ELSE s

RECURSIVE TrimEnd(_)
TrimEnd(s) ==
    IF s # <<>> /\ s[Len(s)] = " " THEN TrimEnd(SubSeq(s, 1, Len(s) - 1)) ELSE s

\* a plausible slip: the input is read without trim()
noTrim(s) == s

\* String.prototype.trim
trim(s) == TrimEnd(TrimStart(s))

(***************************************************************************)
(* Summary records the API may return.  M3 carries the id of M1 with other *)
(* fields and no Title; M2 carries markup-significant characters.          *)
(***************************************************************************)
M1 == [Title |-> <<"a">>, Year |-> <<"1">>, Poster |-> NA, imdbID |-> ID1]
M2 == [Title |-> <<"<", "&">>, Year |-> <<"2">>, Poster |-> <<"\"", "x">>, imdbID |-> ID2]
M3 == [Title |-> Undefined, Year |-> <<"3">>, Poster |-> <<"p">>, imdbID |-> ID1]
Movies == {M1, M2, M3}

Fields == <<"Title", "Year", "Poster", "imdbID">>

(***************************************************************************)
(* JSON.stringify and JSON.parse of the watchlist array.  A property whose *)
(* value is undefined is left out of the text; reading a property that the *)
(* parsed object lacks yields undefined.                                   *)
(***************************************************************************)
RECURSIVE StringifyFields(_, _)
StringifyFields(m, i) ==
    IF i > Len(Fields) THEN <<>>
    ELSE (IF m[Fields[i]] = Undefined THEN <<>> ELSE << <<Fields[i], m[Fields[i]]>> >>)
         \o StringifyFields(m, i + 1)

StringifyEntry(m) == StringifyFields(m, 1)

Lookup(pairs, key) ==
    IF \E i \in 1..Len(pairs) : pairs[i][1] = key
    THEN pairs[CHOOSE i \in 1..Len(pairs) : pairs[i][1] = key][2]
    ELSE Undefined

ParseEntry(pairs) == [f \in {"Title", "Year", "Poster", "imdbID"} |-> Lookup(pairs, f)]

\* The value of the watchlist variable: an array with its items, null, or a
\* non-array JSON value.
Array(items) == [type |-> "array", items |-> items]
Null == [type |-> "null", items |-> <<>>]
NonArray == [type |-> "object", items |-> <<>>]

\* The text under WATCHLIST_KEY: absent (getItem returns null), the empty
\* string, text that is not JSON, or JSON text of the kinds above.
Absent == [kind |-> "absent", items |-> <<>>]
EmptyText == [kind |-> "empty", items |-> <<>>]
Garbage == [kind |-> "garbage", items |-> <<>>]
NullText == [kind |-> "null", items |-> <<>>]
ObjectText == [kind |-> "object", items |-> <<>>]
ArrayText(ts) == [kind |-> "array", items |-> ts]

JSONstringify(w) ==
    CASE w.type = "array" -> ArrayText([i \in 1..Len(w.items) |-> StringifyEntry(w.items[i])])
      [] w.type = "null" -> NullText
      [] OTHER -> ObjectText

\* JSON.parse; defined where it does not throw
JSONparse(raw) ==
    CASE raw.kind = "array" -> Array([i \in 1..Len(raw.items) |-> ParseEntry(raw.items[i])])
      [] raw.kind = "null" -> Null
      [] OTHER -> NonArray


VARIABLES
    phase,          \* "loading" while the script runs, then "ready" or "crashed"
    localStorage,   \* the text under WATCHLIST_KEY
    watchlist,      \* the in-memory watchlist
    watchlistGrid,  \* the watchlist section of the page
    lastCall,       \* history: the last watchlist-store call, whether its id was present
                    \* and whether the call got to saveWatchlist()
    searchInput,    \* the text in the search box
    resultsGrid,    \* the results region of the page
    searchFetches,  \* fetchMovies calls awaiting their response, oldest first; history in
                    \* each: whether it is the last one submitted, and the last query submitted
    modal,          \* the details overlay and its fields
    detailFetches,  \* openDetailsModal calls awaiting fetchMovieDetails, oldest first
    latestDetail    \* history: the id openDetailsModal was last called for, how its fetch
                    \* ended, whether fetches for other ids only were pending at the call,
                    \* and whether the overlay was dismissed since with a fetch pending

store == <<localStorage, watchlist, watchlistGrid>>
search == <<searchInput, resultsGrid, searchFetches>>
details == <<modal, detailFetches, latestDetail>>
vars == <<phase, localStorage, watchlist, watchlistGrid, lastCall,
          searchInput, resultsGrid, searchFetches, modal, detailFetches, latestDetail>>

(***************************************************************************)
(* Watchlist store.                                                        *)
(***************************************************************************)
\* watchlist.some(...) throws a TypeError when watchlist is not an array
StoreThrows(w) == w.type # "array"

isInWatchlist(w, imdbID) == \E i \in 1..Len(w.items) : w.items[i].imdbID = imdbID

\* the poster a card shows
PosterOf(movie) == IF movie.Poster # NA THEN Interpolate(movie.Poster) ELSE PLACEHOLDER

\* the texts a card's innerHTML template receives, and the id its buttons close over
CardMarkup(movie) ==
    [src |-> PosterOf(movie),
     alt |-> escapeHtml(movie.Title) \o <<" ", "p", "o", "s", "t", "e", "r">>,
     title |-> escapeHtml(movie.Title),
     heading |-> escapeHtml(movie.Title),
     year |-> escapeHtml(movie.Year),
     imdbID |-> movie.imdbID]

EmptyWatchlistMessage == [kind |-> "empty-message", cards |-> <<>>]
Cleared == [kind |-> "cards", cards |-> <<>>]

\* renderWatchlist, defined where it does not throw
renderWatchlist(w) ==
    IF w.type = "null" \/ Len(w.items) = 0 THEN EmptyWatchlistMessage
    ELSE [kind |-> "cards", cards |-> [i \in 1..Len(w.items) |-> CardMarkup(w.items[i])]]

RenderThrows(w) == w.type = "object"

toSave(movie) ==
    [Title |-> movie.Title, Year |-> movie.Year, Poster |-> movie.Poster,
     imdbID |-> movie.imdbID]

\* a plausible slip: unshift for push
AddedFirst(w, movie) ==
    IF isInWatchlist(w, movie.imdbID) THEN w ELSE Array(<<toSave(movie)>> \o w.items)

\* the watchlist after addToWatchlist(movie)
Added(w, movie) ==
    IF isInWatchlist(w, movie.imdbID) THEN w ELSE Array(Append(w.items, toSave(movie)))

RECURSIVE Filter(_, _)
Filter(items, imdbID) ==
    IF items = <<>> THEN <<>>
    ELSE (IF Head(items).imdbID # imdbID THEN <<Head(items)>> ELSE <<>>)
         \o Filter(Tail(items), imdbID)

RECURSIVE FilterEq(_, _)
FilterEq(items, imdbID) ==
    IF items = <<>> THEN <<>>
    ELSE (IF Head(items).imdbID = imdbID THEN <<Head(items)>> ELSE <<>>)
         \o FilterEq(Tail(items), imdbID)

\* a plausible slip: === for !== in the filter
RemovedInverted(w, imdbID) == Array(FilterEq(w.items, imdbID))

\* the watchlist after removeFromWatchlist(imdbID)
Removed(w, imdbID) == Array(Filter(w.items, imdbID))

\* a plausible slip: the text is built before the mutation
saveWatchlistStale(w) == JSONstringify(watchlist)

\* a plausible slip: only the ids are persisted
saveWatchlistIds(w) ==
    ArrayText([i \in 1..Len(w.items) |-> << <<"imdbID", w.items[i].imdbID>> >>])

saveWatchlist(w) == JSONstringify(w)

\* a plausible slip: the isInWatchlist guard is missing
addToWatchlistUnchecked(movie) ==
    /\ lastCall' = [fn |-> "addToWatchlist", id |-> movie.imdbID,
                    present |-> ~StoreThrows(watchlist) /\ isInWatchlist(watchlist, movie.imdbID),
                    saved |-> ~StoreThrows(watchlist)]
    /\ IF StoreThrows(watchlist)
       THEN UNCHANGED store
       ELSE /\ watchlist' = Array(Append(watchlist.items, toSave(movie)))
            /\ localStorage' = saveWatchlist(watchlist')
            /\ watchlistGrid' = renderWatchlist(watchlist')

\* a plausible slip: an id that is present has its entry replaced by the
\* record offered
addToWatchlistUpsert(movie) ==
    /\ lastCall' = [fn |-> "addToWatchlist", id |-> movie.imdbID,
                    present |-> ~StoreThrows(watchlist) /\ isInWatchlist(watchlist, movie.imdbID),
                    saved |-> ~StoreThrows(watchlist)]
    /\ IF StoreThrows(watchlist)
       THEN UNCHANGED store
       ELSE /\ watchlist' =
                 IF isInWatchlist(watchlist, movie.imdbID)
                 THEN Array([i \in 1..Len(watchlist.items) |->
                                IF watchlist.items[i].imdbID = movie.imdbID
                                THEN toSave(movie) ELSE watchlist.items[i]])
                 ELSE Array(Append(watchlist.items, toSave(movie)))
            /\ localStorage' = saveWatchlist(watchlist')
            /\ watchlistGrid' = renderWatchlist(watchlist')

\* the effect of addToWatchlist(movie) on the store
addToWatchlist(movie) ==
    /\ lastCall' = [fn |-> "addToWatchlist", id |-> movie.imdbID,
                    present |-> ~StoreThrows(watchlist) /\ isInWatchlist(watchlist, movie.imdbID),
                    saved |-> ~StoreThrows(watchlist)
                              /\ ~isInWatchlist(watchlist, movie.imdbID)]
    /\ IF StoreThrows(watchlist) \/ isInWatchlist(watchlist, movie.imdbID)
       THEN UNCHANGED store
       ELSE /\ watchlist' = Added(watchlist, movie)
            /\ localStorage' = saveWatchlist(watchlist')
            /\ watchlistGrid' = renderWatchlist(watchlist')

\* the effect of removeFromWatchlist(imdbID) on the store
removeFromWatchlist(imdbID) ==
    /\ lastCall' = [fn |-> "removeFromWatchlist", id |-> imdbID,
                    present |-> ~StoreThrows(watchlist) /\ isInWatchlist(watchlist, imdbID),
                    saved |-> ~StoreThrows(watchlist)]
    /\ IF StoreThrows(watchlist)
       THEN UNCHANGED store
       ELSE /\ watchlist' = Removed(watchlist, imdbID)
            /\ localStorage' = saveWatchlist(watchlist')
            /\ watchlistGrid' = renderWatchlist(watchlist')

\* loadWatchlist, defined where JSON.parse does not throw
loadWatchlist(raw) == IF raw.kind \in {"absent", "empty"} THEN Array(<<>>) ELSE JSONparse(raw)

LoadThrows(raw) == raw.kind = "garbage"

(***************************************************************************)
(* Search client and results region.                                       *)
(***************************************************************************)
\* what the user may type into the search box
Inputs == {<<>>, <<" ">>, <<" ", "a", " ">>, <<"<">>}

\* what the search endpoint may answer: the fetch rejects, the status is not
\* 2xx, the body is not JSON, or a JSON payload
SearchPayloads ==
    {[Response |-> "False", isArray |-> FALSE, Search |-> <<>>],
     [Response |-> "True", isArray |-> FALSE, Search |-> <<>>],
     [Response |-> "True", isArray |-> TRUE, Search |-> <<>>],
     [Response |-> "True", isArray |-> TRUE, Search |-> <<M1, M3>>],
     [Response |-> "True", isArray |-> TRUE, Search |-> <<M2, M1>>]}

SearchOutcomes ==
    {[kind |-> k, data |-> [Response |-> "False", isArray |-> FALSE, Search |-> <<>>]] :
        k \in {"rejected", "http-error", "bad-json"}}
    \cup {[kind |-> "json", data |-> d] : d \in SearchPayloads}

Message(kind, text) == [kind |-> kind, text |-> text, cards |-> <<>>]

InitialResults == Message("initial", <<>>)
EmptyInputMessage == Message("empty-input", <<>>)
HttpErrorMessage == Message("http-error", <<>>)
NetworkErrorMessage == Message("network-error", <<>>)
NoResultsMessage(query) == Message("no-results", escapeHtml(query))

\* one card of the results grid: its markup, the movie its handlers close
\* over, and its add button
ResultCard(w, movie) ==
    [markup |-> CardMarkup(movie),
     movie |-> movie,
     addBtn |-> [textContent |-> IF isInWatchlist(w, movie.imdbID)
                                 THEN "Added" ELSE "Add to Watchlist",
                 disabled |-> isInWatchlist(w, movie.imdbID)]]

\* the results grid after renderMovies(movies), defined where it does not throw
renderMovies(w, movies) ==
    [kind |-> "cards", text |-> <<>>,
     cards |-> [i \in 1..Len(movies) |-> ResultCard(w, movies[i])]]

\* renderMovies throws at the first card when the watchlist is not an array
RenderMoviesThrows(w, movies) == movies # <<>> /\ StoreThrows(w)

\* a plausible slip: the no-match branch shows the catch block's message
fetchMoviesResultNoMatchAsError(w, query, o) ==
    CASE o.kind = "http-error" -> HttpErrorMessage
      [] o.kind \in {"rejected", "bad-json"} -> NetworkErrorMessage
      [] OTHER ->
            IF o.data.Response = "True" /\ o.data.isArray
            THEN IF RenderMoviesThrows(w, o.data.Search)
                 THEN NetworkErrorMessage
                 ELSE renderMovies(w, o.data.Search)
            ELSE NetworkErrorMessage

\* a plausible slip: response.ok is not checked, and an error status is
\* read as a payload without matches
fetchMoviesResultNoStatusCheck(w, query, o) ==
    CASE o.kind = "http-error" -> NoResultsMessage(query)
      [] o.kind \in {"rejected", "bad-json"} -> NetworkErrorMessage
      [] OTHER ->
            IF o.data.Response = "True" /\ o.data.isArray
            THEN IF RenderMoviesThrows(w, o.data.Search)
                 THEN NetworkErrorMessage
                 ELSE renderMovies(w, o.data.Search)
            ELSE NoResultsMessage(query)

\* the results grid once fetchMovies(query) has run to its end with outcome o
fetchMoviesResult(w, query, o) ==
    CASE o.kind = "http-error" -> HttpErrorMessage
      [] o.kind \in {"rejected", "bad-json"} -> NetworkErrorMessage
      [] OTHER ->
            IF o.data.Response = "True" /\ o.data.isArray
            THEN IF RenderMoviesThrows(w, o.data.Search)
                 THEN NetworkErrorMessage
                 ELSE renderMovies(w, o.data.Search)
            ELSE NoResultsMessage(query)

(***************************************************************************)
(* Details client and overlay.                                             *)
(***************************************************************************)
\* the detail record the API holds for an id; the second lacks most fields
DetailData(imdbID) ==
    IF imdbID = ID1
    THEN [Title |-> <<"a">>, Year |-> <<"1">>, imdbRating |-> <<"9">>, Genre |-> <<"g">>,
          Director |-> <<"d">>, Actors |-> <<"c">>, Plot |-> <<"p">>, Poster |-> <<"u">>]
    ELSE [Title |-> <<"<", "&">>, Year |-> Undefined, imdbRating |-> Undefined,
          Genre |-> Undefined, Director |-> Undefined, Actors |-> Undefined,
          Plot |-> Undefined, Poster |-> NA]

\* what fetchMovieDetails may meet
DetailOutcomes == {"rejected", "http-error", "bad-json", "response-false", "response-true"}

\* fetchMovieDetails: the record, or null
fetchMovieDetails(imdbID, o) == IF o = "response-true" THEN "data" ELSE "null"

\* v || fallback
Or(v, fallback) == IF v = Undefined \/ v = <<>> THEN fallback ELSE v

LOADING == <<"Loading...">>
NOT_AVAILABLE == <<"Details not available">>
TRY_LATER == <<"Could not load details. Please try again later.">>

\* the overlay as the page's HTML leaves it
InitialModal ==
    [show |-> FALSE, src |-> <<>>, alt |-> <<>>, title |-> <<>>, yearRating |-> <<>>,
     genre |-> <<>>, director |-> <<>>, actors |-> <<>>, plot |-> <<>>]

showModal(m) == [m EXCEPT !.show = TRUE]

closeModal(m) == [m EXCEPT !.show = FALSE]

\* openDetailsModal up to its await
ModalLoading(m) ==
    showModal([m EXCEPT !.src = <<>>, !.title = LOADING, !.yearRating = <<>>,
                        !.genre = <<>>, !.director = <<>>, !.actors = <<>>,
                        !.plot = <<>>])

\* a plausible slip: a failed fetch closes the overlay
ModalFailedClosed(m) == closeModal([m EXCEPT !.title = NOT_AVAILABLE, !.plot = TRY_LATER])

ModalFailed(m) == [m EXCEPT !.title = NOT_AVAILABLE, !.plot = TRY_LATER]

\* a plausible slip: populating the overlay also shows it
ModalPopulatedShown(m, data) ==
    showModal(
    [m EXCEPT !.src = IF data.Poster # NA THEN data.Poster ELSE PLACEHOLDER,
              !.alt = escapeHtml(data.Title) \o <<" ", "p", "o", "s", "t", "e", "r">>,
              !.title = Or(data.Title, <<>>),
              !.yearRating = Or(data.Year, <<>>) \o <<" * Rating: ">> \o Or(data.imdbRating, NA),
              !.genre = <<"Genre: ">> \o Or(data.Genre, NA),
              !.director = <<"Director: ">> \o Or(data.Director, NA),
              !.actors = <<"Cast: ">> \o Or(data.Actors, NA),
              !.plot = Or(data.Plot, <<>>)])

ModalPopulated(m, data) ==
    [m EXCEPT !.src = IF data.Poster # NA THEN data.Poster ELSE PLACEHOLDER,
              !.alt = escapeHtml(data.Title) \o <<" ", "p", "o", "s", "t", "e", "r">>,
              !.title = Or(data.Title, <<>>),
              !.yearRating = Or(data.Year, <<>>) \o <<" * Rating: ">> \o Or(data.imdbRating, NA),
              !.genre = <<"Genre: ">> \o Or(data.Genre, NA),
              !.director = <<"Director: ">> \o Or(data.Director, NA),
              !.actors = <<"Cast: ">> \o Or(data.Actors, NA),
              !.plot = Or(data.Plot, <<>>)]

\* openDetailsModal after its await: the overlay once the fetch for imdbID
\* has ended with outcome o
ModalResolved(m, imdbID, o) ==
    IF fetchMovieDetails(imdbID, o) = "null" THEN ModalFailed(m)
    ELSE ModalPopulated(m, DetailData(imdbID))

RemoveAt(seq, i) == SubSeq(seq, 1, i - 1) \o SubSeq(seq, i + 1, Len(seq))

(***************************************************************************)
(* The page.                                                               *)
(***************************************************************************)
\* what WATCHLIST_KEY may hold when the page is opened
InitialStorage ==
    {Absent, EmptyText, Garbage, NullText, ObjectText}
    \cup {JSONstringify(Array(items)) : items \in {<<>>, <<M1>>, <<M3, M2>>}}

NoCall == [fn |-> "none", id |-> <<>>, present |-> FALSE, saved |-> FALSE]

Init ==
    /\ phase = "loading"
    /\ localStorage \in InitialStorage
    /\ watchlist = Array(<<>>)
    /\ watchlistGrid = [kind |-> "initial", cards |-> <<>>]
    /\ lastCall = NoCall
    /\ searchInput = <<>>
    /\ resultsGrid = InitialResults
    /\ searchFetches = <<>>
    /\ modal = InitialModal
    /\ detailFetches = <<>>
    /\ latestDetail =
         [imdbID |-> <<>>, result |-> "none", afterOther |-> FALSE, dismissed |-> FALSE]

\* the script's top level: loadWatchlist(), renderWatchlist(), then the
\* listeners are registered; an uncaught exception ends the script
Startup ==
    /\ phase = "loading"
    /\ lastCall' = [fn |-> "loadWatchlist", id |-> <<>>, present |-> FALSE, saved |-> FALSE]
    /\ IF LoadThrows(localStorage)
       THEN phase' = "crashed" /\ UNCHANGED <<watchlist, watchlistGrid>>
       ELSE /\ watchlist' = loadWatchlist(localStorage)
            /\ IF RenderThrows(watchlist')
               THEN watchlistGrid' = Cleared /\ phase' = "crashed"
               ELSE watchlistGrid' = renderWatchlist(watchlist') /\ phase' = "ready"
    /\ UNCHANGED <<localStorage, search, details>>

\* the user edits the search box
TypeQuery(v) ==
    /\ phase = "ready"
    /\ searchInput' = v
    /\ UNCHANGED <<phase, store, lastCall, resultsGrid, searchFetches, details>>

\* the submit handler of the search form
SubmitSearch ==
    /\ phase = "ready"
    /\ LET query == trim(searchInput) IN
         IF query = <<>>
         THEN resultsGrid' = EmptyInputMessage /\ UNCHANGED searchFetches
         ELSE /\ Len(searchFetches) < MaxSearchFetches
              /\ searchFetches' =
                   Append([k \in 1..Len(searchFetches) |->
                              [searchFetches[k] EXCEPT !.latest = FALSE, !.last = query]],
                          [query |-> query, latest |-> TRUE, last |-> query])
              /\ UNCHANGED resultsGrid
    /\ UNCHANGED <<phase, store, lastCall, searchInput, details>>

\* fetchMovies from its first await to its end
FetchMoviesResolve(i, o) ==
    /\ i \in 1..Len(searchFetches)
    /\ resultsGrid' = fetchMoviesResult(watchlist, searchFetches[i].query, o)
    /\ searchFetches' = RemoveAt(searchFetches, i)
    /\ UNCHANGED <<phase, store, lastCall, searchInput, details>>

\* a plausible slip: the handler adds the movie and leaves the button as it is
ClickAddNoDisable(i) ==
    /\ phase = "ready"
    /\ i \in 1..Len(resultsGrid.cards)
    /\ ~resultsGrid.cards[i].addBtn.disabled
    /\ addToWatchlist(resultsGrid.cards[i].movie)
    /\ UNCHANGED <<phase, search, details>>

\* the click handler of a results card's add button
ClickAdd(i) ==
    /\ phase = "ready"
    /\ i \in 1..Len(resultsGrid.cards)
    /\ ~resultsGrid.cards[i].addBtn.disabled
    /\ addToWatchlist(resultsGrid.cards[i].movie)
    /\ resultsGrid' =
         IF StoreThrows(watchlist) THEN resultsGrid
         ELSE [resultsGrid EXCEPT !.cards[i].addBtn =
                    [textContent |-> "Added", disabled |-> TRUE]]
    /\ UNCHANGED <<phase, searchInput, searchFetches, details>>

\* the click handler of a watchlist card's remove button
ClickRemove(i) ==
    /\ phase = "ready"
    /\ i \in 1..Len(watchlistGrid.cards)
    /\ removeFromWatchlist(watchlistGrid.cards[i].imdbID)
    /\ UNCHANGED <<phase, search, details>>

\* addToWatchlist called with any summary record
CallAddToWatchlist(movie) ==
    /\ phase = "ready"
    /\ addToWatchlist(movie)
    /\ UNCHANGED <<phase, search, details>>

\* removeFromWatchlist called with any id
CallRemoveFromWatchlist(imdbID) ==
    /\ phase = "ready"
    /\ removeFromWatchlist(imdbID)
    /\ UNCHANGED <<phase, search, details>>

\* openDetailsModal up to its await
openDetailsModal(imdbID) ==
    /\ Len(detailFetches) < MaxDetailFetches
    /\ modal' = ModalLoading(modal)
    /\ detailFetches' =
         Append([k \in 1..Len(detailFetches) |-> [detailFetches[k] EXCEPT !.latest = FALSE]],
                [imdbID |-> imdbID, latest |-> TRUE])
    /\ latestDetail' =
         [imdbID |-> imdbID, result |-> "pending", dismissed |-> FALSE,
          afterOther |-> /\ detailFetches # <<>>
                         /\ \A k \in 1..Len(detailFetches) :
                               detailFetches[k].imdbID # imdbID]

\* the ids of the cards on display, in either grid
DisplayedIds ==
    {resultsGrid.cards[i].movie.imdbID : i \in 1..Len(resultsGrid.cards)}
    \cup {watchlistGrid.cards[i].imdbID : i \in 1..Len(watchlistGrid.cards)}

\* the click handler of a card's details button, in either grid
ClickDetails(imdbID) ==
    /\ phase = "ready"
    /\ imdbID \in DisplayedIds
    /\ openDetailsModal(imdbID)
    /\ UNCHANGED <<phase, store, lastCall, search>>

\* openDetailsModal from its await to its end
FetchDetailsResolve(i, o) ==
    /\ i \in 1..Len(detailFetches)
    /\ modal' = ModalResolved(modal, detailFetches[i].imdbID, o)
    /\ detailFetches' = RemoveAt(detailFetches, i)
    /\ latestDetail' =
         IF detailFetches[i].latest
         THEN [latestDetail EXCEPT !.result = fetchMovieDetails(detailFetches[i].imdbID, o)]
         ELSE latestDetail
    /\ UNCHANGED <<phase, store, lastCall, search>>

\* the close control, or a click on the overlay outside its content
DismissModal ==
    /\ phase = "ready"
    /\ modal.show
    /\ modal' = closeModal(modal)
    /\ latestDetail' =
         [latestDetail EXCEPT !.dismissed = latestDetail.dismissed \/ detailFetches # <<>>]
    /\ UNCHANGED <<phase, store, lastCall, search, detailFetches>>

\* the watchlist store, the search client and the two grids
PageNext ==
    \/ Startup
    \/ \E v \in Inputs : TypeQuery(v)
    \/ SubmitSearch
    \/ \E i \in 1..MaxSearchFetches, o \in SearchOutcomes : FetchMoviesResolve(i, o)
    \/ \E i \in 1..MaxCards : ClickAdd(i)
    \/ \E i \in 1..MaxCards : ClickRemove(i)
    \/ \E movie \in Movies : CallAddToWatchlist(movie)
    \/ \E imdbID \in Ids : CallRemoveFromWatchlist(imdbID)

\* the details client and the overlay
OverlayNext ==
    \/ Startup
    \/ \E imdbID \in Ids : ClickDetails(imdbID)
    \/ \E i \in 1..MaxDetailFetches, o \in DetailOutcomes : FetchDetailsResolve(i, o)
    \/ DismissModal

Next == PageNext \/ OverlayNext

\* the whole page
Spec == Init /\ [][Next]_vars

\* The overlay's actions read nothing of the page but the ids of the cards
\* on display and write nothing of it, and the page's actions neither read
\* nor write the overlay: each half is checked on its own.
SpecPage == Init /\ [][PageNext]_vars

SpecOverlay == Init /\ [][OverlayNext]_vars

(***************************************************************************)
(* Properties.                                                             *)
(***************************************************************************)

\* C1: when openDetailsModal was called for A and then for B, and no
\* details fetch is pending any more, the overlay shows what the fetch for
\* B, the id last asked for, ended with: B's record or the failure message,
\* whatever the order in which the fetches resolved.
C1_LastRequestedIdShown ==
    (detailFetches = <<>> /\ latestDetail.afterOther) =>
        IF latestDetail.result = "data"
        THEN /\ modal.title = Or(DetailData(latestDetail.imdbID).Title, <<>>)
             /\ modal.plot = Or(DetailData(latestDetail.imdbID).Plot, <<>>)
        ELSE modal.title = NOT_AVAILABLE /\ modal.plot = TRY_LATER

\* C2: no two entries of the watchlist have the same imdbID.
C2_UniqueIds ==
    \A i, j \in 1..Len(watchlist.items) :
        i # j => watchlist.items[i].imdbID # watchlist.items[j].imdbID

\* addToWatchlist was last called with an id that was present, and the
\* watchlist holds that id once
C2_AddedTwice ==
    /\ lastCall.fn = "addToWatchlist"
    /\ lastCall.present
    /\ Cardinality({i \in 1..Len(watchlist.items) :
                        watchlist.items[i].imdbID = lastCall.id}) = 1

HasId(items, imdbID) == \E i \in 1..Len(items) : items[i].imdbID = imdbID

\* what C3 says of one removeFromWatchlist(imdbID) step
C3_Post(imdbID) ==
    /\ ~HasId(watchlist.items, imdbID) => watchlist' = watchlist
    /\ HasId(watchlist.items, imdbID) =>
        /\ Len(watchlist'.items) = Len(watchlist.items) - 1
        /\ ~HasId(watchlist'.items, imdbID)
        /\ \E k \in 1..Len(watchlist.items) :
              /\ watchlist.items[k].imdbID = imdbID
              /\ watchlist'.items = RemoveAt(watchlist.items, k)
        /\ localStorage'.kind = "array"
        /\ JSONparse(localStorage') = watchlist'

\* C3: removeFromWatchlist of an id that is not in the watchlist leaves the
\* collection as it was; of an id that is in it, it takes exactly one entry
\* away, leaves no entry with that id, keeps the others in place, and the
\* persisted text parses to the new collection.
C3_Remove ==
    [][\A imdbID \in Ids : CallRemoveFromWatchlist(imdbID) => C3_Post(imdbID)]_vars

\* removeFromWatchlist has taken a present id out and another entry stays
C3_RemovedPresent ==
    /\ lastCall.fn = "removeFromWatchlist"
    /\ lastCall.present
    /\ Len(watchlist.items) = 1
    /\ ~HasId(watchlist.items, lastCall.id)

\* the text under WATCHLIST_KEY parses, and to the in-memory watchlist
PersistedIsWatchlist ==
    /\ localStorage.kind \in {"array", "null", "object"}
    /\ JSONparse(localStorage) = watchlist

NeverMutated == lastCall.fn = "loadWatchlist"

C5_SaveLoadRoundTrip ==
    /\ watchlist.type = "array" => loadWatchlist(saveWatchlist(watchlist)) = watchlist
    /\ (phase = "ready" /\ lastCall.fn = "loadWatchlist" /\ localStorage.kind = "array") =>
          /\ Len(watchlist.items) = Len(localStorage.items)
          /\ \A i \in 1..Len(localStorage.items) :
                \A f \in {"Title", "Year", "Poster", "imdbID"} :
                    watchlist.items[i][f] = Lookup(localStorage.items[i], f)

\* two entries were added, the second without a Title, and persisted
C5_TwoEntriesSaved ==
    /\ lastCall.fn = "addToWatchlist"
    /\ Len(watchlist.items) = 2
    /\ watchlist.items[2].Title = Undefined
    /\ localStorage = saveWatchlist(watchlist)

\* C6: loadWatchlist at startup never fails: the script always gets to the
\* end, and when the stored text is absent, unparseable or not an array the
\* watchlist is the empty collection.
C6_StartupNeverFails ==
    /\ phase # "crashed"
    /\ (phase = "ready" /\ NeverMutated /\ localStorage.kind # "array") =>
          watchlist = Array(<<>>)

IsBlank(s) == \A k \in 1..Len(s) : s[k] = " "

\* C7: a submit with empty or whitespace-only input starts no fetch and
\* shows the empty-input message; a fetch is started only for a query that
\* is not empty and carries no surrounding whitespace.
C7_NoFetchForBlankInput ==
    [][/\ (SubmitSearch /\ IsBlank(searchInput)) =>
            (searchFetches' = searchFetches /\ resultsGrid' = EmptyInputMessage)
       /\ Len(searchFetches') > Len(searchFetches) =>
            LET q == searchFetches'[Len(searchFetches')].query IN
            /\ ~IsBlank(searchInput)
            /\ q # <<>> /\ q[1] # " " /\ q[Len(q)] # " "]_vars

\* whitespace was submitted: the message shows and nothing is in flight
C7_BlankSubmitted ==
    /\ searchInput = <<" ">>
    /\ resultsGrid = EmptyInputMessage
    /\ searchFetches = <<>>

\* C8: a search fetch that ends with a success status and a payload
\* reporting no matches shows the no-match message for its query, which is
\* neither of the two error messages.
C8_NoMatchMessage ==
    [][\A i \in 1..MaxSearchFetches, o \in SearchOutcomes :
          (o.kind = "json" /\ o.data.Response = "False" /\ FetchMoviesResolve(i, o)) =>
              /\ resultsGrid'.kind = "no-results"
              /\ resultsGrid'.text = escapeHtml(searchFetches[i].query)
              /\ resultsGrid' \notin {HttpErrorMessage, NetworkErrorMessage}]_vars

\* the no-match message is on display for the query "<"
C8_NoMatchShown ==
    resultsGrid.kind = "no-results" /\ resultsGrid.text = <<"&", "l", "t", ";">>

Failed(o) == o.kind \in {"http-error", "rejected", "bad-json"}

\* C9 as claimed: a search fetch that ends with a non-success status, or
\* fails in transport or in parsing, shows the retry-later message, with no
\* cards, and the page goes on.
C9_RetryLaterOnAnyFailure ==
    [][\A i \in 1..MaxSearchFetches, o \in SearchOutcomes :
          (Failed(o) /\ FetchMoviesResolve(i, o)) =>
              resultsGrid' = HttpErrorMessage /\ phase' = "ready"]_vars

\* C9 as amended: a non-success status shows the retry-later message, a
\* failure in transport or in parsing shows the network-error message; in
\* each case no cards are shown, the fetch is over and the page goes on.
C9_MessagePerFailure ==
    [][\A i \in 1..MaxSearchFetches, o \in SearchOutcomes :
          (Failed(o) /\ FetchMoviesResolve(i, o)) =>
              /\ o.kind = "http-error" => resultsGrid' = HttpErrorMessage
              /\ o.kind # "http-error" => resultsGrid' = NetworkErrorMessage
              /\ resultsGrid'.cards = <<>>
              /\ Len(searchFetches') = Len(searchFetches) - 1
              /\ phase' = "ready"]_vars

\* a fetch that failed in transport or in parsing has been answered with
\* the network-error message (with an array for a watchlist nothing else
\* shows it)
C9_NetworkErrorShown == resultsGrid = NetworkErrorMessage /\ watchlist.type = "array"

MarkupSignificant == {"<", ">", "\"", "'"}

Escaped(text) == \A k \in 1..Len(text) : text[k] \notin MarkupSignificant

CardEscaped(markup) ==
    /\ Escaped(markup.src)
    /\ Escaped(markup.alt)
    /\ Escaped(markup.title)
    /\ Escaped(markup.heading)
    /\ Escaped(markup.year)

\* C10: no text that fetchMovies, renderMovies or renderWatchlist puts into
\* markup through innerHTML carries a raw markup-significant character.
C10_AllInsertedTextEscaped ==
    /\ Escaped(resultsGrid.text)
    /\ \A i \in 1..Len(resultsGrid.cards) : CardEscaped(resultsGrid.cards[i].markup)
    /\ \A i \in 1..Len(watchlistGrid.cards) : CardEscaped(watchlistGrid.cards[i])

\* C11: when the fetch for the id last asked for ends in a non-success
\* status, a transport error, a body that is not JSON or a payload whose
\* Response is not 'True', the overlay shows the details-not-available
\* message in title and plot, keeps its other fields, and is as open as it
\* was: the resolution does not close it, and the page goes on.
C11_FailureShownInOverlay ==
    [][\A i \in 1..MaxDetailFetches, o \in DetailOutcomes \ {"response-true"} :
          (i <= Len(detailFetches) /\ detailFetches[i].latest /\ FetchDetailsResolve(i, o)) =>
              /\ modal'.title = NOT_AVAILABLE
              /\ modal'.plot = TRY_LATER
              /\ modal'.show = modal.show
              /\ modal' = [modal EXCEPT !.title = NOT_AVAILABLE, !.plot = TRY_LATER]
              /\ latestDetail'.result = "null"
              /\ phase' = "ready"]_vars

\* the only fetch has failed and the open overlay went from loading to failed
C11_FailedOverlayOpen ==
    /\ modal = [InitialModal EXCEPT !.show = TRUE, !.title = NOT_AVAILABLE, !.plot = TRY_LATER]
    /\ latestDetail.result = "null"
    /\ detailFetches = <<>>

AddedButton == [textContent |-> "Added", disabled |-> TRUE]

\* C12: a click on a results card's add control leaves it disabled and
\* labelled 'Added' and starts no fetch; while the same cards stay on
\* display a disabled control stays disabled and labelled 'Added'; and a
\* click handler runs on an enabled control only, so no later click on that
\* card calls addToWatchlist or writes to storage.
C12_AddControlDisabledOnceClicked ==
    [][/\ \A i \in 1..MaxCards :
            ClickAdd(i) =>
                /\ ~resultsGrid.cards[i].addBtn.disabled
                /\ resultsGrid'.cards[i].addBtn = AddedButton
                /\ searchFetches' = searchFetches
                /\ detailFetches' = detailFetches
       /\ (searchFetches' = searchFetches
           /\ resultsGrid.kind = "cards" /\ resultsGrid'.kind = "cards") =>
                /\ Len(resultsGrid'.cards) = Len(resultsGrid.cards)
                /\ \A i \in 1..Len(resultsGrid.cards) :
                      resultsGrid.cards[i].addBtn.disabled =>
                          resultsGrid'.cards[i].addBtn = AddedButton]_vars

\* the second card's control was clicked and is disabled; the first, which
\* was not, is enabled
C12_ClickedCardDisabled ==
    /\ Len(resultsGrid.cards) = 2
    /\ ~resultsGrid.cards[1].addBtn.disabled
    /\ resultsGrid.cards[2].addBtn = AddedButton
    /\ lastCall.fn = "addToWatchlist"
    /\ lastCall.id = resultsGrid.cards[2].movie.imdbID

IdsOf(items) == [i \in 1..Len(items) |-> items[i].imdbID]

\* a is b with some elements left out, the others in b's order
RECURSIVE IsSubsequence(_, _)
IsSubsequence(a, b) ==
    IF a = <<>> THEN TRUE
    ELSE IF b = <<>> THEN FALSE
    ELSE IF Head(a) = Head(b) THEN IsSubsequence(Tail(a), Tail(b))
    ELSE IsSubsequence(a, Tail(b))

LoadingOverlay == [InitialModal EXCEPT !.show = TRUE, !.title = LOADING]

\* C14: every call of openDetailsModal leaves the overlay shown, its title
\* the loading placeholder and every other field empty, whatever it showed
\* before.
C14_OpenShowsOnlyLoading ==
    [][\A imdbID \in Ids : ClickDetails(imdbID) => modal' = LoadingOverlay]_vars

\* C15: addToWatchlist with an id that is present, by a click or by a call,
\* with whatever other fields, leaves the watchlist, the persisted text and
\* the watchlist section as they were and does not get to saveWatchlist;
\* and in no step does an entry whose id stays in the watchlist change.
C15_AddPresentChangesNothing ==
    [][/\ \A movie \in Movies :
            (/\ HasId(watchlist.items, movie.imdbID)
             /\ \/ CallAddToWatchlist(movie)
                \/ \E i \in 1..MaxCards :
                      /\ i <= Len(resultsGrid.cards)
                      /\ resultsGrid.cards[i].movie = movie
                      /\ ClickAdd(i)) =>
                /\ watchlist' = watchlist
                /\ localStorage' = localStorage
                /\ watchlistGrid' = watchlistGrid
                /\ ~lastCall'.saved
       /\ phase = "ready" =>
            \A i \in 1..Len(watchlist.items), j \in 1..Len(watchlist'.items) :
                watchlist.items[i].imdbID = watchlist'.items[j].imdbID =>
                    watchlist.items[i] = watchlist'.items[j]]_vars

\* the card of M3 was clicked while the watchlist held M1, which has the
\* same id: the entry is still M1's
C15_SameIdOtherFieldsOffered ==
    /\ Len(resultsGrid.cards) = 2
    /\ resultsGrid.cards[2].movie = M3
    /\ resultsGrid.cards[2].addBtn.disabled
    /\ ~resultsGrid.cards[1].addBtn.disabled
    /\ lastCall = [fn |-> "addToWatchlist", id |-> ID1, present |-> TRUE, saved |-> FALSE]
    /\ watchlist.items = <<toSave(M1)>>

\* C16: the resolution of a details fetch, with a record or with a failure,
\* leaves the overlay's visibility as it was, so an overlay dismissed while
\* a fetch was pending stays hidden; the overlay becomes visible only in a
\* step of openDetailsModal, and a dismiss hides it.
C16_ResolutionNeverReopens ==
    [][/\ \A i \in 1..MaxDetailFetches, o \in DetailOutcomes :
            FetchDetailsResolve(i, o) => modal'.show = modal.show
       /\ (~modal.show /\ modal'.show) =>
            /\ \E imdbID \in Ids : ClickDetails(imdbID)
            /\ Len(detailFetches') = Len(detailFetches) + 1
       /\ DismissModal => ~modal'.show
       /\ latestDetail'.dismissed => ~modal'.show]_vars

\* the overlay was dismissed with fetches pending, all of them have since
\* resolved, the last one with a failure, and the overlay is hidden
C16_ResolvedWhileDismissed ==
    /\ latestDetail.dismissed
    /\ detailFetches = <<>>
    /\ ~modal.show
    /\ modal.title = NOT_AVAILABLE
    /\ modal.plot = TRY_LATER

\* the same with a record as the last resolution
C16_PopulatedWhileDismissed ==
    /\ latestDetail.dismissed
    /\ detailFetches = <<>>
    /\ ~modal.show
    /\ latestDetail.result = "data"
    /\ modal.title = Or(DetailData(latestDetail.imdbID).Title, <<>>)

\* C17: when a search was submitted and another, for a different query,
\* was submitted before its fetch resolved, and the results region shows an
\* outcome of the last submitted query, whose fetch has resolved, then the
\* resolution of the earlier fetch, the last one pending, leaves the results
\* region showing that outcome.
C17_LastSubmittedQueryShown ==
    [][\A i \in 1..MaxSearchFetches, o \in SearchOutcomes :
          (/\ i <= Len(searchFetches)
           /\ Len(searchFetches) = 1
           /\ ~searchFetches[i].latest
           /\ searchFetches[i].last # searchFetches[i].query
           /\ \E o2 \in SearchOutcomes :
                 resultsGrid = fetchMoviesResult(watchlist, searchFetches[i].last, o2)
           /\ FetchMoviesResolve(i, o)) =>
              \E o2 \in SearchOutcomes :
                  resultsGrid' = fetchMoviesResult(watchlist, searchFetches[i].last, o2)]_vars

\* C18: every card of the results region has its add control disabled and
\* labelled 'Added' exactly when the card's imdbID is in the watchlist.
C18_AddControlTracksWatchlist ==
    phase = "ready" =>
        \A i \in 1..Len(resultsGrid.cards) :
            resultsGrid.cards[i].addBtn = AddedButton
                <=> HasId(watchlist.items, resultsGrid.cards[i].movie.imdbID)

\* the watchlist section shows the watchlist: the empty-watchlist message
\* when there is no entry, otherwise one card per entry, in order
SectionShowsWatchlist ==
    IF Len(watchlist.items) = 0
    THEN watchlistGrid = EmptyWatchlistMessage
    ELSE /\ watchlistGrid.kind = "cards"
         /\ Len(watchlistGrid.cards) = Len(watchlist.items)
         /\ \A i \in 1..Len(watchlist.items) :
               watchlistGrid.cards[i] = CardMarkup(watchlist.items[i])

\* C19: once the startup code has run, and after every addToWatchlist and
\* removeFromWatchlist call, the watchlist section shows one card per entry
\* of the watchlist, in order, or the empty-watchlist message when the
\* watchlist has no entry.
C19_SectionShowsWatchlist == phase # "loading" => SectionShowsWatchlist

====
